---- MODULE Spec2Model ----
(***************************************************************************)
(* The `upgrade` plugin of FlexGet (flexget/plugins/filter/upgrade.py):    *)
(* group_entries, LazyUpgrade.on_task_filter and LazyUpgrade.on_task_learn *)
(* working on the entries of a task and on the `upgrade` table; and the    *)
(* `rutracker_auth` plugin (flexget/plugins/modify/plugin_rutracker.py):   *)
(* RutrackerModify.on_task_urlrewrite with try_find_cookie, working on the *)
(* `rutracker_accoounts` table.                                            *)
(***************************************************************************)
EXTENDS Integers, Sequences, FiniteSets, TLC

\* ------------------------------------------------------------------ bounds
MaxEntries == 2     \* entries in one task batch
MaxQuality == 2     \* qualities are 0..MaxQuality, ordered as the integers
MaxTime == 1        \* task runs: datetime.now() is read once per learn run
MaxClock == 2       \* the days the clock of the rutracker accounts runs through

VARIABLES
    entries,    \* task.entries: the batch, a sequence of Entry objects
    store,      \* the `upgrade` table: id -> EntryUpgrade row
    now,        \* the clock read by datetime.now()
    phase,      \* the phase the task run is in
    op,         \* the plugin handler that ran last, with its config
    pre,        \* entries and store as they were when that handler started
    calls,      \* per entry, the Entry actions that handler invoked on it
    task,       \* the config of the task and what its last learn run did
    accounts,       \* the `rutracker_accoounts` table: login -> RutrackerAccount row
    auth_cache,     \* RutrackerModify.auth_cache: username -> cookies of its handler
    download_auth,  \* per accepted entry of the urlrewrite task, its download_auth
    lookup          \* the last try_find_cookie call: its arguments and its outcome

upgrade_vars == <<entries, store, phase, op, pre, calls, task>>
rutracker_vars == <<accounts, auth_cache, download_auth, lookup>>
vars == <<entries, store, now, phase, op, pre, calls, task, rutracker_vars>>

\* ------------------------------------------------- qualities (flexget.utils)
Qualities == 0..MaxQuality

\* Quality.name: the text the `quality` column holds
quality_name(q) == ToString(q)

\* qualities.Quality(text): the quality a name stands for
Quality(text) == CHOOSE q \in Qualities : quality_name(q) = text

\* config['target'] is a requirement text; its three shapes "q", "q+", "<=q"
NoTarget == [kind |-> "none", quality |-> 0]
Targets == [kind : {"exact", "min", "max"}, quality : {1}]

\* qualities.Quality(config['target'])
target_quality(target) == target.quality

\* qualities.Requirements(config['target']).allows(quality)
allows(target, quality) ==
    CASE target.kind = "exact" -> quality = target.quality
      [] target.kind = "min" -> quality >= target.quality
      [] target.kind = "max" -> quality <= target.quality
      [] OTHER -> FALSE

\* --------------------------------------------------------- Entry (flexget)
\* Entry.accept(reason): the disposition it leaves the item with
Entry_accept(entry, reason) == [entry EXCEPT !.state = "accepted"]

\* Entry.reject(reason)
Entry_reject(entry, reason) == [entry EXCEPT !.state = "rejected"]

\* Entry.fail(reason)
Entry_fail(entry, reason) == [entry EXCEPT !.state = "failed"]

\* entry_actions = {'accept': Entry.accept, 'reject': Entry.reject, 'fail': Entry.fail}
entry_actions(name, entry, reason) ==
    CASE name = "accept" -> Entry_accept(entry, reason)
      [] name = "reject" -> Entry_reject(entry, reason)
      [] name = "fail" -> Entry_fail(entry, reason)

\* entry.render(template): the only template of the model is "{{series_name}}"
render(entry, template) == entry.series_name

\* str.lower() on the identifiers of the model
lower(s) ==
    CASE s = "A" -> "a"
      [] s = "B" -> "b"
      [] OTHER -> s

\* --------------------------------------------------------------- config
Keys == {"identified_by", "tracking", "target", "on_lower"}

ConfigFalse == [type |-> "boolean", value |-> FALSE, props |-> <<>>]
ConfigTrue == [type |-> "boolean", value |-> TRUE, props |-> <<>>]
ConfigObject(props) == [type |-> "object", value |-> TRUE, props |-> props]

\* Python truth of a config value: False and {} are false
truthy(config) ==
    IF config.type = "boolean" THEN config.value ELSE DOMAIN config.props # {}

\* the defaults with on_lower set to reject
Defaults_on_lower_reject ==
    [identified_by |-> "auto", tracking |-> TRUE, on_lower |-> "reject", target |-> NoTarget]

Defaults ==
    [identified_by |-> "auto", tracking |-> TRUE, on_lower |-> "skip", target |-> NoTarget]

prepare_config(config) ==
    LET given == IF ~truthy(config) \/ config.type = "boolean" THEN <<>> ELSE config.props
    IN  [k \in Keys |-> IF k \in DOMAIN given THEN given[k] ELSE Defaults[k]]

\* ----------------------------------------------------------- group_entries
\* the identifier of line 49
identifier_of(entry, identified_by) ==
    IF identified_by = "auto" THEN entry.id ELSE render(entry, identified_by)

\* grouped_entries[key].append(entry) on a defaultdict(list)
append_to(grouped, key, i) ==
    [k \in DOMAIN grouped \cup {key} |->
        IF k = key
        THEN Append(IF key \in DOMAIN grouped THEN grouped[key] ELSE <<>>, i)
        ELSE grouped[k]]

\* the loop of group_entries without the `continue` of line 52
RECURSIVE group_entries_loop_no_skip(_, _, _, _, _)
group_entries_loop_no_skip(refs, ents, identified_by, n, grouped) ==
    IF n > Len(refs) THEN grouped
    ELSE group_entries_loop_no_skip(
             refs, ents, identified_by, n + 1,
             append_to(grouped, lower(identifier_of(ents[refs[n]], identified_by)), refs[n]))

\* the loop of group_entries without the lower() of line 53
RECURSIVE group_entries_loop_no_lower(_, _, _, _, _)
group_entries_loop_no_lower(refs, ents, identified_by, n, grouped) ==
    IF n > Len(refs) THEN grouped
    ELSE LET identifier == identifier_of(ents[refs[n]], identified_by)
         IN  IF identifier = ""
             THEN group_entries_loop_no_lower(refs, ents, identified_by, n + 1, grouped)
             ELSE group_entries_loop_no_lower(refs, ents, identified_by, n + 1,
                                              append_to(grouped, identifier, refs[n]))

\* the loop of group_entries from position n of `refs` on; `refs` are the
\* positions in `ents` of the entries handed to group_entries
RECURSIVE group_entries_loop(_, _, _, _, _)
group_entries_loop(refs, ents, identified_by, n, grouped) ==
    IF n > Len(refs) THEN grouped
    ELSE LET identifier == identifier_of(ents[refs[n]], identified_by)
         IN  IF identifier = ""
             THEN group_entries_loop(refs, ents, identified_by, n + 1, grouped)
             ELSE group_entries_loop(refs, ents, identified_by, n + 1,
                                     append_to(grouped, lower(identifier), refs[n]))

group_entries(refs, ents, identified_by) ==
    group_entries_loop(refs, ents, identified_by, 1, <<>>)

\* task.entries and task.accepted, as positions in the batch
task_entries(ents) == [i \in 1..Len(ents) |-> i]

RECURSIVE select_refs(_, _, _)
select_refs(ents, n, state) ==
    IF n > Len(ents) THEN <<>>
    ELSE (IF ents[n].state = state THEN <<n>> ELSE <<>>) \o select_refs(ents, n + 1, state)

task_accepted(ents) == select_refs(ents, 1, "accepted")

\* a descending sort that puts the last of the entries of equal quality first
RECURSIVE sort_by_quality_ties_reversed(_, _)
sort_by_quality_ties_reversed(refs, ents) ==
    IF refs = <<>> THEN <<>>
    ELSE LET k == CHOOSE k \in 1..Len(refs) :
                     /\ \A j \in 1..Len(refs) : ents[refs[j]].quality <= ents[refs[k]].quality
                     /\ \A j \in (k + 1)..Len(refs) :
                            ents[refs[j]].quality < ents[refs[k]].quality
         IN  <<refs[k]>> \o
             sort_by_quality_ties_reversed(
                 [j \in 1..(Len(refs) - 1) |-> IF j < k THEN refs[j] ELSE refs[j + 1]], ents)

\* entries.sort(key=lambda e: e['quality'], reverse=True): stable, descending
RECURSIVE sort_by_quality(_, _)
sort_by_quality(refs, ents) ==
    IF refs = <<>> THEN <<>>
    ELSE LET k == CHOOSE k \in 1..Len(refs) :
                     /\ \A j \in 1..Len(refs) : ents[refs[j]].quality <= ents[refs[k]].quality
                     /\ \A j \in 1..(k - 1) : ents[refs[j]].quality < ents[refs[k]].quality
         IN  <<refs[k]>> \o
             sort_by_quality([j \in 1..(Len(refs) - 1) |-> IF j < k THEN refs[j] ELSE refs[j + 1]],
                             ents)

\* list(filter(lambda e: target_requirement.allows(e['quality']), entries))
RECURSIVE filter_allowed(_, _, _)
filter_allowed(refs, ents, target) ==
    IF refs = <<>> THEN <<>>
    ELSE (IF allows(target, ents[Head(refs)].quality) THEN <<Head(refs)>> ELSE <<>>)
         \o filter_allowed(Tail(refs), ents, target)

\* the orders in which a dict can hand out its keys
Orders(keys) ==
    {o \in [1..Cardinality(keys) -> keys] : \A i, j \in DOMAIN o : o[i] = o[j] => i = j}

\* ------------------------------------------------------------ EntryUpgrade
\* EntryUpgrade.quality, read through quality_property
row_quality(row) == Quality(row.quality)

\* ---------------------------------------------------------- on_task_filter
\* a run of the handler: the entries, the calls made on them, the table and
\* the local target_downloaded
call(run, i, action, msg) ==
    [run EXCEPT !.entries[i] = entry_actions(action, @, msg),
                !.calls[i] = Append(@, [action |-> action, msg |-> msg])]

msg_target(on_lower) == "on_lower " \o on_lower \o " because already at target quality"
msg_existing(on_lower) == "on_lower " \o on_lower \o " because lower then existing quality"
msg_entries(on_lower) == "on_lower " \o on_lower \o " because lower quality compared to entries"

\* lines 134-143 with line 135 not asking for target_downloaded
on_lower_entry_no_flag(run, sorted, i, existing, config) ==
    LET action == config.on_lower
        quality == run.entries[i].quality
        r1 == IF quality > row_quality(existing)
              THEN call(run, i, action, msg_target(action)) ELSE run
        r2 == IF quality < row_quality(existing)
              THEN call(r1, i, action, msg_existing(action)) ELSE r1
        r3 == IF r2.entries[sorted[1]].state = "accepted"
                 /\ r2.entries[sorted[1]].quality > quality
              THEN call(r2, i, action, msg_entries(action)) ELSE r2
    IN  r3

\* lines 134-143: the body of `for entry in entries`
on_lower_entry(run, sorted, i, existing, config) ==
    LET action == config.on_lower
        quality == run.entries[i].quality
        r1 == IF quality > row_quality(existing) /\ run.target_downloaded
              THEN call(run, i, action, msg_target(action)) ELSE run
        r2 == IF quality < row_quality(existing)
              THEN call(r1, i, action, msg_existing(action)) ELSE r1
        r3 == IF r2.entries[sorted[1]].state = "accepted"
                 /\ r2.entries[sorted[1]].quality > quality
              THEN call(r2, i, action, msg_entries(action)) ELSE r2
    IN  r3

\* the loop of lines 133-143 run as `for entry in entries[1:]`
RECURSIVE on_lower_loop_after_best(_, _, _, _, _)
on_lower_loop_after_best(run, sorted, n, existing, config) ==
    IF n > Len(sorted) THEN run
    ELSE on_lower_loop_after_best(
             IF n = 1 THEN run
             ELSE on_lower_entry(run, sorted, sorted[n], existing, config),
             sorted, n + 1, existing, config)

\* lines 132-143
RECURSIVE on_lower_loop(_, _, _, _, _)
on_lower_loop(run, sorted, n, existing, config) ==
    IF n > Len(sorted) THEN run
    ELSE on_lower_loop(on_lower_entry(run, sorted, sorted[n], existing, config),
                       sorted, n + 1, existing, config)

\* lines 119-143 with `>=` for the `>` of line 127
filter_decide_on_equal(run, refs, existing, config) ==
    IF Len(refs) = 0 THEN run
    ELSE LET sorted == sort_by_quality(refs, run.entries)
             r1 == IF run.entries[sorted[1]].quality >= row_quality(existing)
                   THEN call(run, sorted[1], "accept", "upgraded quality")
                   ELSE run
         IN  IF config.on_lower # "skip"
             THEN on_lower_loop(r1, sorted, 1, existing, config)
             ELSE r1

\* lines 119-143 with the accepted quality written to the row at line 129
filter_decide_tracking(run, refs, existing, config) ==
    IF Len(refs) = 0 THEN run
    ELSE LET sorted == sort_by_quality(refs, run.entries)
             id == CHOOSE k \in DOMAIN run.store : run.store[k] = existing
             r1 == IF run.entries[sorted[1]].quality > row_quality(existing)
                   THEN [call(run, sorted[1], "accept", "upgraded quality")
                            EXCEPT !.store[id].quality =
                                       quality_name(run.entries[sorted[1]].quality)]
                   ELSE run
         IN  IF config.on_lower # "skip"
             THEN on_lower_loop(r1, sorted, 1, existing, config)
             ELSE r1

\* lines 119-143: what is done with the entries left after target handling
filter_decide(run, refs, existing, config) ==
    IF Len(refs) = 0 THEN run
    ELSE LET sorted == sort_by_quality(refs, run.entries)
             r1 == IF run.entries[sorted[1]].quality > row_quality(existing)
                   THEN call(run, sorted[1], "accept", "upgraded quality")
                   ELSE run
         IN  IF config.on_lower # "skip"
             THEN on_lower_loop(r1, sorted, 1, existing, config)
             ELSE r1

\* lines 99-143 with line 116 reduced to target_requirement.allows(existing.quality)
filter_group_allows_only(run, identifier, refs, config) ==
    IF refs = <<>> THEN run
    ELSE IF identifier \notin DOMAIN run.store THEN run
    ELSE LET existing == run.store[identifier]
             r0 == [run EXCEPT !.target_downloaded = FALSE]
         IN  IF config.target.kind # "none"
             THEN IF allows(config.target, row_quality(existing))
                  THEN r0
                  ELSE filter_decide(r0, filter_allowed(refs, run.entries, config.target),
                                     existing, config)
             ELSE filter_decide(r0, refs, existing, config)

\* lines 99-143 with target_downloaded set once before the loop over the
\* groups, and set to True where line 117 skips a group at its target
filter_group_flag_kept(run, identifier, refs, config) ==
    IF refs = <<>> THEN run
    ELSE IF identifier \notin DOMAIN run.store THEN run
    ELSE LET existing == run.store[identifier]
         IN  IF config.target.kind # "none"
             THEN IF row_quality(existing) > target_quality(config.target)
                     \/ allows(config.target, row_quality(existing))
                  THEN [run EXCEPT !.target_downloaded = TRUE]
                  ELSE filter_decide(run, filter_allowed(refs, run.entries, config.target),
                                     existing, config)
             ELSE filter_decide(run, refs, existing, config)

\* lines 99-143 without the filter of line 113
filter_group_unfiltered(run, identifier, refs, config) ==
    IF refs = <<>> THEN run
    ELSE IF identifier \notin DOMAIN run.store THEN run
    ELSE LET existing == run.store[identifier]
             r0 == [run EXCEPT !.target_downloaded = FALSE]
         IN  IF config.target.kind # "none"
             THEN IF row_quality(existing) > target_quality(config.target)
                     \/ allows(config.target, row_quality(existing))
                  THEN r0
                  ELSE filter_decide(r0, refs, existing, config)
             ELSE filter_decide(r0, refs, existing, config)

\* lines 99-143 with a missing row read as a row of the lowest quality
\* instead of the `continue` of line 105
filter_group_missing_as_lowest(run, identifier, refs, config) ==
    IF refs = <<>> THEN run
    ELSE LET existing == IF identifier \in DOMAIN run.store
                         THEN run.store[identifier]
                         ELSE [quality |-> quality_name(0), title |-> 0, added |-> 0]
             r0 == [run EXCEPT !.target_downloaded = FALSE]
         IN  IF config.target.kind # "none"
             THEN IF row_quality(existing) > target_quality(config.target)
                     \/ allows(config.target, row_quality(existing))
                  THEN r0
                  ELSE filter_decide(r0, filter_allowed(refs, run.entries, config.target),
                                     existing, config)
             ELSE filter_decide(r0, refs, existing, config)

\* lines 99-143: the body of `for identifier, entries in grouped_entries.items()`
filter_group(run, identifier, refs, config) ==
    IF refs = <<>> THEN run
    ELSE IF identifier \notin DOMAIN run.store THEN run
    ELSE LET existing == run.store[identifier]
             r0 == [run EXCEPT !.target_downloaded = FALSE]
         IN  IF config.target.kind # "none"
             THEN IF row_quality(existing) > target_quality(config.target)
                     \/ allows(config.target, row_quality(existing))
                  THEN r0
                  ELSE filter_decide(r0, filter_allowed(refs, run.entries, config.target),
                                     existing, config)
             ELSE filter_decide(r0, refs, existing, config)

RECURSIVE filter_groups(_, _, _, _)
filter_groups(run, grouped, order, config) ==
    IF order = <<>> THEN run
    ELSE filter_groups(filter_group(run, Head(order), grouped[Head(order)], config),
                       grouped, Tail(order), config)

no_calls(ents) == [i \in 1..Len(ents) |-> <<>>]

\* on_task_filter(task, config); `order` is the order of grouped_entries.items()
on_task_filter(ents, table, config, order) ==
    LET run == [entries |-> ents, calls |-> no_calls(ents), store |-> table,
                target_downloaded |-> FALSE]
    IN  IF ~truthy(config) THEN run
        ELSE LET cfg == prepare_config(config)
                 grouped == group_entries(task_entries(ents), ents, cfg.identified_by)
             IN  filter_groups(run, grouped, order, cfg)

\* the orders grouped_entries.items() can have in a filter run
filter_orders(ents, config) ==
    Orders(DOMAIN group_entries(task_entries(ents), ents, prepare_config(config).identified_by))

\* ----------------------------------------------------------- on_task_learn
\* learn_group without the comparison of line 173: the row always takes the
\* best accepted entry
learn_group_overwrite(table, ents, identifier, refs, clock) ==
    IF refs = <<>> THEN table
    ELSE LET best_entry == ents[sort_by_quality(refs, ents)[1]]
             row == [quality |-> quality_name(best_entry.quality),
                     title |-> best_entry.title,
                     added |-> clock]
         IN  [k \in DOMAIN table \cup {identifier} |->
                 IF k = identifier THEN row ELSE table[k]]

\* learn_group with the `continue` of line 174 taken for every existing row
learn_group_no_raise(table, ents, identifier, refs, clock) ==
    IF refs = <<>> THEN table
    ELSE LET best_entry == ents[sort_by_quality(refs, ents)[1]]
             row == [quality |-> quality_name(best_entry.quality),
                     title |-> best_entry.title,
                     added |-> clock]
         IN  IF identifier \notin DOMAIN table
             THEN [k \in DOMAIN table \cup {identifier} |->
                      IF k = identifier THEN row ELSE table[k]]
             ELSE table

\* learn_group without the sort of line 162: best_entry is the first
\* accepted entry of the group
learn_group_unsorted(table, ents, identifier, refs, clock) ==
    IF refs = <<>> THEN table
    ELSE LET best_entry == ents[refs[1]]
             row == [quality |-> quality_name(best_entry.quality),
                     title |-> best_entry.title,
                     added |-> clock]
         IN  IF identifier \notin DOMAIN table
             THEN [k \in DOMAIN table \cup {identifier} |->
                      IF k = identifier THEN row ELSE table[k]]
             ELSE IF row_quality(table[identifier]) > best_entry.quality
                  THEN table
                  ELSE [table EXCEPT ![identifier] = row]

\* lines 158-178: the body of the loop over the groups of accepted entries
learn_group(table, ents, identifier, refs, clock) ==
    IF refs = <<>> THEN table
    ELSE LET sorted == sort_by_quality(refs, ents)
             best_entry == ents[sorted[1]]
             row == [quality |-> quality_name(best_entry.quality),
                     title |-> best_entry.title,
                     added |-> clock]
         IN  IF identifier \notin DOMAIN table
             THEN [k \in DOMAIN table \cup {identifier} |->
                      IF k = identifier THEN row ELSE table[k]]
             ELSE IF row_quality(table[identifier]) > best_entry.quality
                  THEN table
                  ELSE [table EXCEPT ![identifier] = row]

RECURSIVE learn_groups(_, _, _, _, _)
learn_groups(table, ents, grouped, order, clock) ==
    IF order = <<>> THEN table
    ELSE learn_groups(learn_group(table, ents, Head(order), grouped[Head(order)], clock),
                      ents, grouped, Tail(order), clock)

\* on_task_learn(task, config): the table after the session is committed
on_task_learn(ents, table, config, order, clock) ==
    LET cfg == prepare_config(config)
    IN  IF ~cfg.tracking THEN table
        ELSE learn_groups(table, ents,
                          group_entries(task_accepted(ents), ents, cfg.identified_by),
                          order, clock)

learn_orders(ents, config) ==
    Orders(DOMAIN group_entries(task_accepted(ents), ents, prepare_config(config).identified_by))

\* a session scope that commits what it holds however it is left
Session_exit_commits(table, pending, failure) == [table |-> pending, raised |-> FALSE]

\* `with Session() as session:` left with the changes `pending`: committed on
\* normal completion, rolled back and the failure raised on to the caller
\* when a failure ended the scope
Session_exit(table, pending, failure) ==
    [table |-> IF failure THEN table ELSE pending, raised |-> failure]

\* on_task_learn when a persistence failure hits after `done` groups of the
\* loop of line 157 have been handled
on_task_learn_failing(ents, table, config, order, clock, done) ==
    LET cfg == prepare_config(config)
        grouped == group_entries(task_accepted(ents), ents, cfg.identified_by)
        pending == learn_groups(table, ents, grouped, SubSeq(order, 1, done), clock)
        exit == Session_exit(table, pending, TRUE)
    IN  [store |-> exit.table, pending |-> pending, raised |-> exit.raised]

\* ---------------------------------------------------------- rutracker_auth
\* timedelta(days=1), in days
Day == 1

\* None, and the values it is compared with: cookie dicts and their JSON text
None == [kind |-> "None", value |-> ""]
CookieDict(jar) == [kind |-> "dict", value |-> jar]

\* JSONEncodedDict.process_bind_param: json.dumps of what is not None
process_bind_param(value) ==
    IF value # None THEN [kind |-> "json", value |-> value.value] ELSE value

\* JSONEncodedDict.process_result_value: json.loads of what is not None
process_result_value(value) ==
    IF value # None THEN [kind |-> "dict", value |-> value.value] ELSE value

\* a RutrackerAccount row as the table holds it
RutrackerAccount(login, cookies, expiry_time) ==
    [login |-> login, cookies |-> process_bind_param(cookies), expiry_time |-> expiry_time]

\* db_session.add(account); db_session.commit()
db_add(db, account) ==
    [l \in DOMAIN db \cup {account.login} |-> IF l = account.login THEN account ELSE db[l]]

\* db_session.delete(account); db_session.commit()
db_delete(db, login) == [l \in DOMAIN db \ {login} |-> db[l]]

\* try_find_cookie without the test of line 127
try_find_cookie_any_age(db, username, clock) ==
    IF username \in DOMAIN db
    THEN [db |-> db, returned |-> process_result_value(db[username].cookies)]
    ELSE [db |-> db, returned |-> None]

\* RutrackerModify.try_find_cookie(db_session, username): the table it leaves
\* committed and the value it returns
try_find_cookie(db, username, clock) ==
    IF username \in DOMAIN db
    THEN IF db[username].expiry_time < clock
         THEN [db |-> db_delete(db, username), returned |-> None]
         ELSE [db |-> db, returned |-> process_result_value(db[username].cookies)]
    ELSE [db |-> db, returned |-> None]

\* RutrackerAuth.__init__(login, password, cookies, db_session); `response`
\* is the cookies of the answer to the login request, None when it has none
RutrackerAuth(login, cookies, db, response, clock) ==
    IF cookies = None
    THEN IF response = None
         THEN [db |-> db, cookies_ |-> None, raised |-> TRUE]
         ELSE [db |-> db_add(db, RutrackerAccount(login, response, clock + Day)),
               cookies_ |-> response, raised |-> FALSE]
    ELSE [db |-> db, cookies_ |-> cookies, raised |-> FALSE]

\* entry['url'].startswith('http://rutracker.org/forum/viewtopic.php')
is_rutracker(url) == url = "http://rutracker.org/forum/viewtopic.php?t=1"

\* RutrackerModify.on_task_urlrewrite(task, config); `urls` are the urls of
\* task.accepted
on_task_urlrewrite(db, cache, username, response, urls, clock) ==
    LET found == try_find_cookie(db, username, clock)
        auth == IF username \notin DOMAIN cache
                THEN RutrackerAuth(username, found.returned, found.db, response, clock)
                ELSE [db |-> found.db, cookies_ |-> cache[username], raised |-> FALSE]
    IN  [found |-> found,
         db |-> auth.db,
         raised |-> auth.raised,
         cache |-> IF auth.raised THEN cache
                   ELSE [u \in DOMAIN cache \cup {username} |->
                            IF u = username THEN auth.cookies_ ELSE cache[u]],
         download_auth |-> IF auth.raised THEN [i \in DOMAIN urls |-> None]
                           ELSE [i \in DOMAIN urls |->
                                    IF is_rutracker(urls[i]) THEN auth.cookies_ ELSE None]]

\* no try_find_cookie call yet
NoLookup == [username |-> "", at |-> 0, before |-> <<>>, after |-> <<>>, returned |-> None]

\* ------------------------------------------------------------ the machine
\* the (id, series_name) pairs the entries of a batch are drawn from
Identities == {<<"", "">>, <<"a", "B">>, <<"A", "">>, <<"b", "B">>}
OnLower == {"accept", "reject", "fail", "skip"}

NewEntry(title, id, series_name, quality) ==
    [title |-> title, id |-> id, series_name |-> series_name, quality |-> quality,
     state |-> "undecided"]

Min(a, b) == IF a < b THEN a ELSE b

\* the batches of the model: every combination of qualities under one
\* identifier, and every combination of identities at ascending qualities
SameIdBatches ==
    UNION {{[i \in 1..n |-> NewEntry(i, "a", "B", q[i])] : q \in [1..n -> Qualities]} :
           n \in 0..MaxEntries}

MixedIdBatches ==
    UNION {{[i \in 1..n |-> NewEntry(i, d[i][1], d[i][2], Min(i, MaxQuality))] :
            d \in [1..n -> Identities]} : n \in 0..MaxEntries}

Batches == SameIdBatches \cup MixedIdBatches

\* the tables earlier runs can have left: a row for "a" of any quality, one for "b"
OldRow(q) == [quality |-> quality_name(q), title |-> 0, added |-> 0]

Tables ==
    {[k \in ks |-> OldRow(IF k = "a" THEN q ELSE 1)] : ks \in SUBSET {"a", "b"}, q \in Qualities}

FilterConfigs ==
    {ConfigFalse, ConfigTrue, ConfigObject(<<>>)} \cup
    {ConfigObject(p) : p \in [on_lower : OnLower, target : Targets \cup {NoTarget}]} \cup
    {ConfigObject(p) : p \in [identified_by : {"{{series_name}}"}, on_lower : {"reject"}]}

LearnConfigs ==
    {ConfigFalse, ConfigTrue} \cup
    {ConfigObject(p) : p \in [tracking : {FALSE}]} \cup
    {ConfigObject(p) : p \in [identified_by : {"{{series_name}}"}]}

NoOp == [name |-> "none", config |-> ConfigTrue]

\* a task with the given plugin config that has not run yet
NewTask(config) ==
    [config |-> config, upgraded |-> {}, pending |-> <<>>, failure |-> FALSE, raised |-> FALSE]

Init ==
    /\ entries = <<>>
    /\ store \in Tables
    /\ now = 0
    /\ phase = "input"
    /\ op = NoOp
    /\ pre = [entries |-> <<>>, store |-> store]
    /\ calls = <<>>
    /\ task = NewTask(ConfigTrue)
    /\ accounts = <<>>
    /\ auth_cache = <<>>
    /\ download_auth = <<>>
    /\ lookup = NoLookup

\* input phase: the task's inputs produce a new batch of undecided entries
NewBatch ==
    \E b \in Batches :
        /\ phase = "input"
        /\ now < MaxTime
        /\ entries' = b
        /\ phase' = "filter"
        /\ op' = NoOp
        /\ pre' = [entries |-> entries', store |-> store]
        /\ calls' = no_calls(entries')
        /\ UNCHANGED <<store, now, task, rutracker_vars>>

\* another plugin of the task accepts or rejects an entry, before or after
\* this plugin's filter handler
Decide ==
    \E i \in 1..Len(entries), action \in {"accept", "reject"} :
        /\ phase \in {"filter", "learn"}
        /\ entries' = [entries EXCEPT ![i] = entry_actions(action, @, "other")]
        /\ entries' # entries
        /\ op' = NoOp
        /\ pre' = [entries |-> entries', store |-> store]
        /\ calls' = no_calls(entries')
        /\ UNCHANGED <<store, now, phase, task, rutracker_vars>>

\* filter phase: on_task_filter runs once
Filter ==
    \E config \in FilterConfigs :
        \E order \in filter_orders(entries, config) :
            LET run == on_task_filter(entries, store, config, order)
            IN  /\ phase = "filter"
                /\ entries' = run.entries
                /\ calls' = run.calls
                /\ store' = run.store
                /\ phase' = "learn"
                /\ op' = [name |-> "filter", config |-> config]
                /\ pre' = [entries |-> entries, store |-> store]
                /\ UNCHANGED <<now, task, rutracker_vars>>

\* learn phase: on_task_learn runs once and the task run ends
Learn ==
    /\ phase = "learn"
    /\ now < MaxTime
    /\ \E config \in LearnConfigs :
        \E order \in learn_orders(entries, config) :
            /\ store' = on_task_learn(entries, store, config, order, now + 1)
            /\ now' = now + 1
            /\ phase' = "input"
            /\ op' = [name |-> "learn", config |-> config]
            /\ pre' = [entries |-> entries, store |-> store]
            /\ calls' = no_calls(entries)
            /\ UNCHANGED <<entries, task, rutracker_vars>>

Next == NewBatch \/ Decide \/ Filter \/ Learn

Spec == Init /\ [][Next]_vars

\* ------------------------------------------- one task run again and again
\* the plugin config of the task: the same for its filter and learn handlers
TaskConfigs ==
    {ConfigTrue} \cup
    {ConfigObject(p) : p \in [on_lower : {"skip", "reject", "accept"},
                               target : Targets \cup {NoTarget}]} \cup
    {ConfigObject(p) : p \in [tracking : {FALSE}]}

\* the batches as the plugins before this one leave them: undecided, or all
\* accepted
DeliveredBatches ==
    {[i \in DOMAIN b |-> [b[i] EXCEPT !.state = d]] :
        b \in Batches, d \in {"undecided", "accepted"}}

InitTask ==
    /\ entries = <<>>
    /\ store \in Tables
    /\ now = 0
    /\ phase = "input"
    /\ op = NoOp
    /\ pre = [entries |-> <<>>, store |-> store]
    /\ calls = <<>>
    /\ task \in {NewTask(config) : config \in TaskConfigs}
    /\ accounts = <<>>
    /\ auth_cache = <<>>
    /\ download_auth = <<>>
    /\ lookup = NoLookup

\* the first run of the task: its inputs produce a batch
FirstBatch ==
    \E b \in DeliveredBatches :
        /\ phase = "input"
        /\ now = 0
        /\ entries' = b
        /\ phase' = "filter"
        /\ op' = NoOp
        /\ pre' = [entries |-> entries', store |-> store]
        /\ calls' = no_calls(entries')
        /\ UNCHANGED <<store, now, task, rutracker_vars>>

\* a later run of the task: its inputs produce the same entries, undecided
SameBatch ==
    /\ phase = "again"
    /\ entries' = [i \in DOMAIN entries |-> [entries[i] EXCEPT !.state = "undecided"]]
    /\ phase' = "filter"
    /\ op' = NoOp
    /\ pre' = [entries |-> entries', store |-> store]
    /\ calls' = no_calls(entries')
    /\ UNCHANGED <<store, now, task, rutracker_vars>>

\* filter phase of the task
TaskFilter ==
    \E order \in filter_orders(entries, task.config) :
        LET run == on_task_filter(entries, store, task.config, order)
        IN  /\ phase = "filter"
            /\ entries' = run.entries
            /\ calls' = run.calls
            /\ store' = run.store
            /\ phase' = "learn"
            /\ op' = [name |-> "filter", config |-> task.config]
            /\ pre' = [entries |-> entries, store |-> store]
            /\ UNCHANGED <<now, task, rutracker_vars>>

\* the identifiers with an entry that the filter phase accepted as an upgrade
\* and that is among the accepted when the learn phase starts
upgraded_ids(ents, made, config) ==
    LET grouped == group_entries(task_entries(ents), ents, prepare_config(config).identified_by)
    IN  {id \in DOMAIN grouped :
            \E k \in DOMAIN grouped[id] :
                LET i == grouped[id][k]
                IN  /\ ents[i].state = "accepted"
                    /\ \E c \in DOMAIN made[i] :
                          made[i][c] = [action |-> "accept", msg |-> "upgraded quality"]}

\* learn phase of the task: on_task_learn runs to its end
TaskLearn ==
    /\ phase = "learn"
    /\ now < MaxTime
    /\ \E order \in learn_orders(entries, task.config) :
          /\ store' = on_task_learn(entries, store, task.config, order, now + 1)
          /\ now' = now + 1
          /\ phase' = "again"
          /\ op' = [name |-> "learn", config |-> task.config]
          /\ pre' = [entries |-> entries, store |-> store]
          /\ calls' = no_calls(entries)
          /\ task' = [task EXCEPT
                         !.upgraded = IF prepare_config(task.config).tracking
                                      THEN upgraded_ids(entries, calls, task.config)
                                      ELSE {},
                         !.pending = store',
                         !.failure = FALSE,
                         !.raised = FALSE]
          /\ UNCHANGED <<entries, rutracker_vars>>

\* learn phase of the task: a persistence failure ends on_task_learn part way
TaskLearnFails ==
    /\ phase = "learn"
    /\ now < MaxTime
    /\ prepare_config(task.config).tracking
    /\ \E order \in learn_orders(entries, task.config) :
          \E done \in 0..Len(order) :
              LET out == on_task_learn_failing(entries, store, task.config, order,
                                                now + 1, done)
              IN  /\ store' = out.store
                  /\ now' = now + 1
                  /\ phase' = "again"
                  /\ op' = [name |-> "learn", config |-> task.config]
                  /\ pre' = [entries |-> entries, store |-> store]
                  /\ calls' = no_calls(entries)
                  /\ task' = [task EXCEPT !.upgraded = {},
                                          !.pending = out.pending,
                                          !.failure = TRUE,
                                          !.raised = out.raised]
                  /\ UNCHANGED <<entries, rutracker_vars>>

NextTask == FirstBatch \/ SameBatch \/ TaskFilter \/ TaskLearn \/ TaskLearnFails

SpecTask == InitTask /\ [][NextTask]_vars

\* ------------------------------------------- the rutracker_auth machine
Logins == {"u", "v"}

\* the accounts earlier runs can have left: one per login, of any expiry
AccountTables ==
    UNION {[logins -> 0..MaxClock] : logins \in SUBSET Logins}

StoredAccounts(expiry) ==
    [l \in DOMAIN expiry |-> RutrackerAccount(l, CookieDict("old"), expiry[l])]

\* the urls of the accepted entries of a urlrewrite task
UrlBatches ==
    {<<>>, <<"http://rutracker.org/forum/viewtopic.php?t=1">>,
     <<"http://example.org/1", "http://rutracker.org/forum/viewtopic.php?t=1">>}

InitRutracker ==
    /\ entries = <<>>
    /\ store = <<>>
    /\ now = 0
    /\ phase = "input"
    /\ op = NoOp
    /\ pre = [entries |-> <<>>, store |-> <<>>]
    /\ calls = <<>>
    /\ task = NewTask(ConfigTrue)
    /\ accounts \in {StoredAccounts(expiry) : expiry \in AccountTables}
    /\ auth_cache = <<>>
    /\ download_auth = <<>>
    /\ lookup = NoLookup

\* a day passes
Tick ==
    /\ now < MaxClock
    /\ now' = now + 1
    /\ UNCHANGED <<upgrade_vars, rutracker_vars>>

\* the urlrewrite phase of a task with the rutracker_auth plugin
UrlRewrite ==
    \E username \in Logins, response \in {None, CookieDict("new")}, urls \in UrlBatches :
        LET run == on_task_urlrewrite(accounts, auth_cache, username, response, urls, now)
        IN  /\ accounts' = run.db
            /\ auth_cache' = run.cache
            /\ download_auth' = run.download_auth
            /\ lookup' = [username |-> username, at |-> now, before |-> accounts,
                           after |-> run.found.db, returned |-> run.found.returned]
            /\ UNCHANGED <<upgrade_vars, now>>

NextRutracker == Tick \/ UrlRewrite

SpecRutracker == InitRutracker /\ [][NextRutracker]_vars

\* ------------------------------------------------------------- properties
\* the config the last handler worked with
last_config == prepare_config(op.config)

\* the groups the last handler saw
filtered_groups == group_entries(task_entries(pre.entries), pre.entries, last_config.identified_by)
learned_groups == group_entries(task_accepted(pre.entries), pre.entries, last_config.identified_by)

\* the best entry of a group: the first one after the sort
best_ref(refs, ents) == sort_by_quality(refs, ents)[1]

ran_filter == op.name = "filter" /\ truthy(op.config)
ran_learn == op.name = "learn" /\ last_config.tracking

\* C1: no step, and so no on_task_learn run, lowers the quality stored for an
\* identifier: a row that exists before the step exists after it, with a
\* quality greater than or equal to the one it had.
C1_MonotonicTracking ==
    \A id \in DOMAIN pre.store :
        id \in DOMAIN store /\ row_quality(store[id]) >= row_quality(pre.store[id])

\* a learn run whose best accepted entry is below the stored quality
C1_Witness ==
    /\ ran_learn
    /\ \E id \in DOMAIN learned_groups \cap DOMAIN pre.store :
          pre.entries[best_ref(learned_groups[id], pre.entries)].quality
              < row_quality(pre.store[id])

\* C2: in one on_task_filter run no entry has an action (accept, reject or
\* fail) invoked on it more than once.
C2_NoDoubleAction ==
    op.name = "filter" => \A i \in DOMAIN calls : Len(calls[i]) <= 1

\* C3: in on_task_learn, a row whose quality is greater than or equal to the
\* quality of the best accepted entry of its group keeps its quality, title
\* and added timestamp.
C3_UnchangedWhenNotBetter ==
    ran_learn =>
        \A id \in DOMAIN learned_groups \cap DOMAIN pre.store :
            row_quality(pre.store[id])
                >= pre.entries[best_ref(learned_groups[id], pre.entries)].quality
            => store[id] = pre.store[id]

\* the positions a sequence of references holds
refs_of(refs) == {refs[k] : k \in DOMAIN refs}

\* the groups of the last filter run that have a row in the table
tracked_groups == DOMAIN filtered_groups \cap DOMAIN pre.store

\* line 116: the row of the group is already at the target
target_reached(id) ==
    /\ last_config.target.kind # "none"
    /\ \/ row_quality(pre.store[id]) > target_quality(last_config.target)
       \/ allows(last_config.target, row_quality(pre.store[id]))

\* the entries of a group that target filtering keeps
kept(id) ==
    {i \in refs_of(filtered_groups[id]) :
        last_config.target.kind # "none" => allows(last_config.target, pre.entries[i].quality)}

\* the entry of highest quality among `among`, the earliest of the batch on a tie
is_best(i, among) ==
    /\ i \in among
    /\ \A j \in among :
          /\ pre.entries[j].quality <= pre.entries[i].quality
          /\ j < i => pre.entries[j].quality < pre.entries[i].quality

called(i, action, msg) ==
    \E k \in DOMAIN calls[i] : calls[i][k] = [action |-> action, msg |-> msg]

\* C4: with a target configured, a group whose row already exceeds the target
\* quality or satisfies the target requirement gets no action on any of its
\* entries, whatever the batch and on_lower are.
C4_TargetShortCircuit ==
    ran_filter =>
        \A id \in tracked_groups :
            target_reached(id) =>
                \A i \in refs_of(filtered_groups[id]) :
                    calls[i] = <<>> /\ entries[i] = pre.entries[i]

\* a row above an exact target, on_lower set, and an entry below the row
C4_Witness ==
    /\ ran_filter
    /\ last_config.on_lower # "skip"
    /\ \E id \in tracked_groups :
          /\ target_reached(id)
          /\ ~allows(last_config.target, row_quality(pre.store[id]))
          /\ \E i \in kept(id) : pre.entries[i].quality < row_quality(pre.store[id])

\* C5: in a group with a row that target handling does not skip, the best of
\* the kept entries is accepted with reason "upgraded quality" exactly when
\* its quality is strictly greater than the row's, and no other entry is.
C5_UpgradeAccept ==
    ran_filter =>
        \A id \in tracked_groups :
            ~target_reached(id) =>
                \A i \in refs_of(filtered_groups[id]) :
                    /\ called(i, "accept", "upgraded quality")
                         <=> /\ is_best(i, kept(id))
                             /\ pre.entries[i].quality > row_quality(pre.store[id])
                    /\ called(i, "accept", "upgraded quality")
                         => entries[i].state = "accepted"

\* a best entry above the row, accepted while a target is configured and
\* on_lower rejects
C5_Witness ==
    /\ ran_filter
    /\ last_config.on_lower = "reject"
    /\ last_config.target.kind # "none"
    /\ \E id \in tracked_groups :
          /\ ~target_reached(id)
          /\ \E i \in kept(id) :
                /\ called(i, "accept", "upgraded quality")
                /\ entries[i].state = "accepted"
                /\ pre.entries[i].state # "accepted"

C7_FilterLeavesStore ==
    op.name # "learn" => store = pre.store

\* a filter run that accepted an upgrade over a row of the table
C7_Witness ==
    /\ ran_filter
    /\ \E id \in tracked_groups :
          \E i \in kept(id) : called(i, "accept", "upgraded quality")

\* C8: running on_task_filter again on the batch and the table the last run
\* started from, in whatever order the dict hands out the groups, yields the
\* dispositions and the reasons that run produced.
C8_FilterRepeatable ==
    op.name = "filter" =>
        \A order \in filter_orders(pre.entries, op.config) :
            LET again == on_task_filter(pre.entries, pre.store, op.config, order)
            IN  again.entries = entries /\ again.calls = calls

\* a run over two groups with rows, with a target and on_lower set, that
\* acted on an entry
C8_Witness ==
    /\ ran_filter
    /\ last_config.target.kind # "none"
    /\ last_config.on_lower # "skip"
    /\ Cardinality(tracked_groups) >= 2
    /\ \E id \in tracked_groups : target_reached(id)
    /\ \E i \in DOMAIN calls : calls[i] # <<>>

\* the entries of a batch that have no identifier
unidentified(ents, identified_by) ==
    {i \in DOMAIN ents : identifier_of(ents[i], identified_by) = ""}

\* the batch with the entries that have no identifier taken out of the accepted
without_unidentified(ents, identified_by) ==
    [i \in DOMAIN ents |->
        IF i \in unidentified(ents, identified_by)
        THEN [ents[i] EXCEPT !.state = "undecided"] ELSE ents[i]]

\* C9: an entry with no identifier is in no group: on_task_filter invokes
\* nothing on it and leaves its disposition, and on_task_learn writes the
\* table it would write if the entry were not accepted.
C9_UnidentifiedIgnored ==
    /\ op.name = "filter" =>
          \A i \in unidentified(pre.entries, last_config.identified_by) :
              /\ calls[i] = <<>>
              /\ entries[i] = pre.entries[i]
              /\ \A id \in DOMAIN filtered_groups : i \notin refs_of(filtered_groups[id])
    /\ op.name = "learn" =>
          LET others == without_unidentified(pre.entries, last_config.identified_by)
          IN  \A order \in learn_orders(others, op.config) :
                  store = on_task_learn(others, pre.store, op.config, order, now)

\* a learn run with tracking over an accepted entry that has no identifier
C9_Witness ==
    /\ ran_learn
    /\ \E i \in unidentified(pre.entries, last_config.identified_by) :
          pre.entries[i].state = "accepted"
    /\ store # pre.store

\* what group_entries has to make of the entries `refs` of `ents`
grouping_of(refs, ents, identified_by) ==
    LET grouped == group_entries(refs, ents, identified_by)
        resolved == {i \in refs_of(refs) : identifier_of(ents[i], identified_by) # ""}
        together(i, j) ==
            \E id \in DOMAIN grouped :
                i \in refs_of(grouped[id]) /\ j \in refs_of(grouped[id])
    IN  /\ \A i, j \in resolved :
              together(i, j)
                  <=> lower(identifier_of(ents[i], identified_by))
                        = lower(identifier_of(ents[j], identified_by))
        /\ \A i \in resolved :
              Cardinality({id \in DOMAIN grouped : i \in refs_of(grouped[id])}) = 1
        /\ \A id \in DOMAIN grouped :
              /\ refs_of(grouped[id]) \subseteq resolved
              /\ \A x, y \in DOMAIN grouped[id] : x < y => grouped[id][x] < grouped[id][y]

\* C10: group_entries puts two entries that have identifiers into the same
\* group exactly when their identifiers are equal after lower-casing, puts
\* each such entry into exactly one group, once, and keeps the batch order
\* within a group.
C10_Grouping ==
    /\ op.name = "filter" =>
          grouping_of(task_entries(pre.entries), pre.entries, last_config.identified_by)
    /\ op.name = "learn" =>
          grouping_of(task_accepted(pre.entries), pre.entries, last_config.identified_by)

\* a filter run over a batch whose two entries differ in case only
C10_Witness ==
    /\ ran_filter
    /\ Len(pre.entries) >= 2
    /\ pre.entries[1].id = "a" /\ pre.entries[2].id = "A"
    /\ last_config.identified_by = "auto"
    /\ filtered_groups = [k \in {"a"} |-> <<1, 2>>]

\* the groups of the last filter run that have no row in the table
untracked_groups == DOMAIN filtered_groups \ DOMAIN pre.store

\* C11: for an identifier that has no row in the table, on_task_filter
\* invokes no action on any entry of its group and leaves every one of them
\* as it was, whatever target and on_lower are.
C11_NoRecordNoAction ==
    op.name = "filter" =>
        \A id \in untracked_groups :
            \A i \in refs_of(filtered_groups[id]) :
                calls[i] = <<>> /\ entries[i] = pre.entries[i]

\* a run with on_lower set that acted on a tracked group and met a group
\* without a row whose entries differ in quality
C11_Witness ==
    /\ ran_filter
    /\ last_config.on_lower # "skip"
    /\ \E i \in DOMAIN calls : calls[i] # <<>>
    /\ \E id \in untracked_groups :
          \E i \in refs_of(filtered_groups[id]) : pre.entries[i].quality > 0

Max(a, b) == IF a > b THEN a ELSE b

\* C12: after on_task_learn with tracking, every identifier with an accepted
\* entry has a row; its quality is the highest accepted quality of the
\* identifier, or the quality the row had before if that was higher; a row
\* that was created or raised carries the title of that best accepted entry.
C12_LearnRecordsBest ==
    ran_learn =>
        \A id \in DOMAIN learned_groups :
            \A i \in refs_of(learned_groups[id]) :
                is_best(i, refs_of(learned_groups[id])) =>
                    /\ id \in DOMAIN store
                    /\ row_quality(store[id]) =
                           IF id \in DOMAIN pre.store
                           THEN Max(row_quality(pre.store[id]), pre.entries[i].quality)
                           ELSE pre.entries[i].quality
                    /\ (id \notin DOMAIN pre.store
                          \/ row_quality(store[id]) > row_quality(pre.store[id]))
                       => store[id].title = pre.entries[i].title

\* a learn run that raised a row to the quality of the second of two
\* accepted entries, and one that created a row
C12_Witness ==
    /\ ran_learn
    /\ \E id \in DOMAIN learned_groups :
          /\ Len(learned_groups[id]) = 2
          /\ is_best(2, refs_of(learned_groups[id]))
          /\ \/ id \notin DOMAIN pre.store
             \/ row_quality(pre.store[id]) < pre.entries[2].quality
          /\ store[id].title = 2

\* C13: when a persistence failure ends on_task_learn after some rows have
\* been created or updated, none of the changes of that run is kept: the
\* table is what it was before the run, and the failure is raised on.
C13_FailureRollsBack ==
    (op.name = "learn" /\ task.failure) => (store = pre.store /\ task.raised)

\* a failure after the row of one of two accepted groups had been written
C13_Witness ==
    /\ op.name = "learn"
    /\ task.failure
    /\ Cardinality(DOMAIN learned_groups) >= 2
    /\ task.pending # pre.store
    /\ \E id \in DOMAIN learned_groups :
          /\ id \in DOMAIN pre.store
          /\ task.pending[id] = pre.store[id]
          /\ pre.entries[best_ref(learned_groups[id], pre.entries)].quality
                > row_quality(pre.store[id])

\* C14: on_task_filter applies the on_lower action with the reason "lower
\* quality compared to entries" to an entry only when the best kept entry of
\* its group is above the row, and so was accepted as the upgrade in this
\* run, and the entry's quality is strictly lower than the best entry's.
C14_LowerThanBestOnlyAfterUpgrade ==
    ran_filter =>
        \A id \in tracked_groups :
            \A i \in refs_of(filtered_groups[id]) :
                called(i, last_config.on_lower, msg_entries(last_config.on_lower)) =>
                    \E b \in kept(id) :
                        /\ is_best(b, kept(id))
                        /\ pre.entries[b].quality > row_quality(pre.store[id])
                        /\ pre.entries[i].quality < pre.entries[b].quality

\* C15: with a target configured, an entry whose quality the target does
\* not allow gets no action from on_task_filter and keeps its disposition,
\* and it is never the best entry of its group: the upgrade is accepted among
\* the kept entries only, and "lower quality compared to entries" is measured
\* against a kept entry.
C15_OutsideTargetUntouched ==
    (ran_filter /\ last_config.target.kind # "none") =>
        /\ \A i \in DOMAIN pre.entries :
              ~allows(last_config.target, pre.entries[i].quality)
              => calls[i] = <<>> /\ entries[i] = pre.entries[i]
        /\ \A id \in tracked_groups :
              \A i \in refs_of(filtered_groups[id]) :
                  /\ called(i, "accept", "upgraded quality") => is_best(i, kept(id))
                  /\ called(i, last_config.on_lower, msg_entries(last_config.on_lower))
                     => \E b \in kept(id) : pre.entries[b].quality > pre.entries[i].quality

\* the entry of highest quality of a group is outside the target and stays
\* as it was while a kept entry below it is accepted as the upgrade
C15_Witness ==
    /\ ran_filter
    /\ last_config.target.kind # "none"
    /\ last_config.on_lower # "skip"
    /\ \E id \in tracked_groups :
          \E i, j \in refs_of(filtered_groups[id]) :
              /\ ~allows(last_config.target, pre.entries[i].quality)
              /\ pre.entries[i].quality > pre.entries[j].quality
              /\ called(j, "accept", "upgraded quality")
              /\ calls[i] = <<>>

\* the config asks for on_lower skip, or leaves on_lower to its default
on_lower_skip ==
    \/ op.config.type = "boolean"
    \/ "on_lower" \notin DOMAIN op.config.props
    \/ op.config.props.on_lower = "skip"

\* C16: with on_lower skip, which is the default, the only action
\* on_task_filter invokes is accept with reason "upgraded quality": no entry
\* becomes rejected or failed, and in each group at most one entry is acted
\* on and changed.
C16_SkipOnlyUpgrades ==
    (ran_filter /\ on_lower_skip) =>
        /\ \A i \in DOMAIN calls :
              /\ \A k \in DOMAIN calls[i] :
                    calls[i][k] = [action |-> "accept", msg |-> "upgraded quality"]
              /\ entries[i] # pre.entries[i] => entries[i].state = "accepted"
              /\ entries[i] # pre.entries[i] =>
                    \E id \in DOMAIN filtered_groups : i \in refs_of(filtered_groups[id])
        /\ \A id \in DOMAIN filtered_groups :
              /\ Cardinality({i \in refs_of(filtered_groups[id]) :
                                 entries[i] # pre.entries[i]}) <= 1
              /\ Cardinality({i \in refs_of(filtered_groups[id]) : calls[i] # <<>>}) <= 1

\* the default on_lower, and a group of two entries above the row of which
\* one is accepted
C16_Witness ==
    /\ ran_filter
    /\ op.config = ConfigTrue
    /\ \E id \in tracked_groups :
          /\ Cardinality(refs_of(filtered_groups[id])) = 2
          /\ \A i \in refs_of(filtered_groups[id]) :
                pre.entries[i].quality > row_quality(pre.store[id])
          /\ \E i \in refs_of(filtered_groups[id]) :
                entries[i].state = "accepted" /\ pre.entries[i].state = "undecided"

\* a sequence of entries is in descending order of quality, and its entries
\* of equal quality are in the order of the batch
stable_descending(sorted, ents) ==
    \A x, y \in DOMAIN sorted :
        x < y =>
            /\ ents[sorted[x]].quality >= ents[sorted[y]].quality
            /\ ents[sorted[x]].quality = ents[sorted[y]].quality => sorted[x] < sorted[y]

\* C17: the descending sort is stable. In on_task_filter the entry accepted
\* as the upgrade is, of the kept entries of highest quality, the first of
\* the batch; in on_task_learn the title written to a row is that of the
\* first accepted entry of highest quality; and the sorted groups keep the
\* batch order among entries of equal quality.
C17_StableSort ==
    /\ ran_filter =>
          \A id \in tracked_groups :
              /\ LET sorted == sort_by_quality(filtered_groups[id], pre.entries)
                 IN  /\ refs_of(sorted) = refs_of(filtered_groups[id])
                     /\ Len(sorted) = Len(filtered_groups[id])
                     /\ stable_descending(sorted, pre.entries)
              /\ \A i \in refs_of(filtered_groups[id]) :
                    called(i, "accept", "upgraded quality") =>
                        \A j \in kept(id) :
                            pre.entries[j].quality = pre.entries[i].quality => i <= j
    /\ ran_learn =>
          \A id \in DOMAIN learned_groups :
              /\ stable_descending(sort_by_quality(learned_groups[id], pre.entries),
                                   pre.entries)
              /\ (id \notin DOMAIN pre.store \/ store[id] # pre.store[id]) =>
                    \A i \in refs_of(learned_groups[id]) :
                        is_best(i, refs_of(learned_groups[id]))
                        => store[id].title = pre.entries[i].title

\* two entries tie for the highest quality of their group: the first is
\* accepted as the upgrade, or gives the row its title
C17_Witness ==
    /\ Len(pre.entries) = 2
    /\ pre.entries[1].quality = pre.entries[2].quality
    /\ \/ /\ ran_filter
          /\ \E id \in tracked_groups : filtered_groups[id] = <<1, 2>>
          /\ called(1, "accept", "upgraded quality")
       \/ /\ ran_learn
          /\ \E id \in DOMAIN learned_groups :
                learned_groups[id] = <<1, 2>> /\ store[id].title = 1

\* C18: with on_lower reject or fail, the entry accepted as the upgrade is
\* not acted on by the on_lower loop and ends the filter phase accepted, and
\* the kept entries of the same quality are left as they were.
C18_UpgradeSurvivesOnLower ==
    (ran_filter /\ last_config.on_lower \in {"reject", "fail"}) =>
        \A id \in tracked_groups :
            \A b \in refs_of(filtered_groups[id]) :
                called(b, "accept", "upgraded quality") =>
                    /\ calls[b] = <<[action |-> "accept", msg |-> "upgraded quality"]>>
                    /\ entries[b].state = "accepted"
                    /\ \A j \in kept(id) \ {b} :
                          pre.entries[j].quality = pre.entries[b].quality
                          => calls[j] = <<>> /\ entries[j] = pre.entries[j]

\* an upgrade is accepted next to an entry of the same quality and on_lower
\* rejects or fails
C18_Witness ==
    /\ ran_filter
    /\ last_config.on_lower \in {"reject", "fail"}
    /\ \E id \in tracked_groups :
          \E b, j \in kept(id) :
              /\ b # j
              /\ called(b, "accept", "upgraded quality")
              /\ pre.entries[b].state # "accepted"
              /\ pre.entries[j].quality = pre.entries[b].quality
              /\ entries[b].state = "accepted"

\* C19: when on_task_filter has accepted an entry as the upgrade of an
\* identifier and on_task_learn, with tracking, has run with that entry among
\* the accepted, the next on_task_filter run of the task over the same batch
\* accepts no entry of that identifier with reason "upgraded quality".
C19_NoRepeatedUpgrade ==
    (op.name = "filter" /\ now > 0) =>
        \A id \in task.upgraded \cap DOMAIN filtered_groups :
            \A i \in refs_of(filtered_groups[id]) :
                ~called(i, "accept", "upgraded quality")

\* the filter run after an upgrade was learned meets the same entries, among
\* them one of the stored quality that target handling keeps
C19_Witness ==
    /\ ran_filter
    /\ now > 0
    /\ \E id \in task.upgraded \cap tracked_groups :
          /\ ~target_reached(id)
          /\ \E i \in kept(id) : pre.entries[i].quality = row_quality(pre.store[id])

\* C20: try_find_cookie returns the stored cookies of the account of the
\* username exactly when there is one whose expiry_time has not passed, and
\* then leaves the table alone; an expired account is deleted, the deletion
\* committed, and None returned; with no account None is returned and the
\* table is unchanged.
C20_CookieOnlyIfFresh ==
    lookup # NoLookup =>
        LET username == lookup.username
            before == lookup.before
        IN  /\ username \notin DOMAIN before =>
                  lookup.returned = None /\ lookup.after = before
            /\ (username \in DOMAIN before /\ before[username].expiry_time < lookup.at) =>
                  /\ lookup.returned = None
                  /\ DOMAIN lookup.after = DOMAIN before \ {username}
                  /\ \A l \in DOMAIN lookup.after : lookup.after[l] = before[l]
            /\ (username \in DOMAIN before /\ before[username].expiry_time >= lookup.at) =>
                  /\ lookup.returned # None
                  /\ lookup.returned.kind = "dict"
                  /\ lookup.returned.value = before[username].cookies.value
                  /\ lookup.after = before

\* an expired account is deleted while the other login keeps its account,
\* and no new account has been added since
C20_Witness ==
    /\ lookup # NoLookup
    /\ lookup.username \in DOMAIN lookup.before
    /\ lookup.before[lookup.username].expiry_time < lookup.at
    /\ lookup.returned = None
    /\ DOMAIN lookup.after # {}
    /\ accounts = lookup.after

====
